---- MODULE Spec2Model ----
(***************************************************************************)
(* TrafficEnforcementV2 (the Enforcement Ledger) as a state machine.       *)
(*                                                                         *)
(* One action per external function of the contract.  A call that reverts  *)
(* leaves the ledger as it was and records the kind of failure in          *)
(* lastError.  An outbound value transfer (payFine's return of the excess, *)
(* claimRefund's payout, withdrawFunds) hands control to the recipient:    *)
(* the function's action ends where the transfer starts, the recipient may *)
(* call back into the ledger, and TransferReturn ends the function, either *)
(* completing it or reverting the whole transaction to the snapshot taken  *)
(* when the function was entered.                                          *)
(*                                                                         *)
(* Amounts are counted in units of 5 * 10^14 wei, so that the exchange     *)
(* constant of 10^15 wei per KES is 2 units.  Time is counted in half      *)
(* days.  A string is a TLA+ string; keccak256 over the packed fields is   *)
(* modelled as the tuple of the fields (an injective function).            *)
(***************************************************************************)
EXTENDS Integers, Sequences, FiniteSets, Bags, TLC

VARIABLES
    roles,                  \* AccessControl: role -> set of holders
    paused,                 \* Pausable._paused
    reentrancyStatus,       \* ReentrancyGuard._status
    officers,               \* mapping(address => Officer)
    offenses,               \* mapping(uint32 => Offense)
    violations,             \* mapping(bytes32 => Violation), written keys only
    vehicleViolations,      \* mapping(string => bytes32[])
    appeals,                \* mapping(bytes32 => Appeal), written keys only
    totalViolations,
    totalFinesPaid,
    totalFinesRefunded,
    officerDailyViolations, \* mapping(address => mapping(uint256 => uint256))
    pendingRefunds,         \* mapping(address => uint256)
    balance,                \* address(this).balance
    wallet,                 \* the principals' own funds
    now,                    \* block.timestamp
    FineRefunded,           \* bag of the FineRefunded events emitted
    RefundClaimed,          \* bag of the RefundClaimed events emitted
    audit,                  \* the event log, kept where it is observed
    frame,                  \* the guarded function whose transfer is in progress
    nested,                 \* calls made by the recipient during that transfer
    lastError               \* outcome of the last call

ledger == <<roles, paused, reentrancyStatus, officers, offenses, violations,
            vehicleViolations, appeals, totalViolations, totalFinesPaid,
            totalFinesRefunded, officerDailyViolations, pendingRefunds,
            balance, wallet, FineRefunded, RefundClaimed, audit>>

vars == <<roles, paused, reentrancyStatus, officers, offenses, violations,
          vehicleViolations, appeals, totalViolations, totalFinesPaid,
          totalFinesRefunded, officerDailyViolations, pendingRefunds,
          balance, wallet, now, FineRefunded, RefundClaimed, audit, frame,
          nested, lastError>>

----------------------------------------------------------------------------
(* Bounds of the model *)

\* violations logged, in Spec
MaxViolations == 2
\* violations logged, in SpecTime
MaxViolationsTime == 1
\* the last block's timestamp, in SpecTime
MaxTime == 2
\* calls made while the recipient of a transfer runs
MaxNested == 1
\* violations logged, in SpecRate: one more than the daily ceiling
MaxViolationsRate == 101
\* the event log is observed up to this length
MaxAudit == 7
\* logViolation calls where the daily count is followed
MaxViolationsDaily == 4

----------------------------------------------------------------------------
(* Constants and roles *)

DEFAULT_ADMIN_ROLE == "DEFAULT_ADMIN_ROLE"
ADMIN_ROLE == "ADMIN_ROLE"
OFFICER_MANAGER_ROLE == "OFFICER_MANAGER_ROLE"
OFFICER_ROLE == "OFFICER_ROLE"
JUDGE_ROLE == "JUDGE_ROLE"
TREASURY_ROLE == "TREASURY_ROLE"
UPGRADER_ROLE == "UPGRADER_ROLE"

RoleNames == {DEFAULT_ADMIN_ROLE, ADMIN_ROLE, OFFICER_MANAGER_ROLE, OFFICER_ROLE,
              JUDGE_ROLE, TREASURY_ROLE, UPGRADER_ROLE}

MAX_VIOLATIONS_PER_DAY == 100
MAX_APPEALS_PER_VIOLATION == 3
DAY == 2
APPEAL_COOLDOWN == 7 * DAY
KES_TO_WEI_RATE == 2
MAX_STRING_LENGTH == 500
MAX_VEHICLE_ID_LENGTH == 20
MAX_BADGE_LENGTH == 50
\* type(uint256).max, scaled: the largest value of an offset or a limit
UINT256_MAX == 7

\* enum ViolationStatus
Unpaid == "Unpaid"
Paid == "Paid"
Appealed == "Appealed"
Waived == "Waived"
Rejected == "Rejected"
Refunded == "Refunded"

ViolationStatus == {Unpaid, Paid, Appealed, Waived, Rejected, Refunded}

\* ReentrancyGuard
NOT_ENTERED == "NOT_ENTERED"
ENTERED == "ENTERED"

----------------------------------------------------------------------------
(* Principals and the inputs the calls are made with *)

Admin == "adm"
Principals == {"adm", "off", "drv"}     \* the callers
Accounts == Principals \cup {"bank"}    \* and an account that only receives
ZeroAddress == "0x0"

X50 == "0123456789" \o "0123456789" \o "0123456789" \o "0123456789" \o "0123456789"
TooLongBadge == X50 \o "0"
TooLongVehicleId == "KZZ 999Z KZZ 999Z KZZ"

\* registerOfficer: a valid registration, and one invalid value per argument
RegisterInputs ==
    {[officerId |-> "off", name |-> "Jane Doe", badgeNumber |-> "BADGE-999"],
     [officerId |-> ZeroAddress, name |-> "Jane Doe", badgeNumber |-> "BADGE-999"],
     [officerId |-> "off", name |-> "", badgeNumber |-> "BADGE-999"],
     [officerId |-> "off", name |-> "Jane Doe", badgeNumber |-> TooLongBadge]}
OfficerInputs == {"off"}

\* registerOfficer of the same principal under another name and badge
ReregisterInputs ==
    {[officerId |-> "off", name |-> "John Roe", badgeNumber |-> "BADGE-111"]}

\* grant and revoke: the Officer role of the officer
RoleInputs == {[role |-> OFFICER_ROLE, account |-> "off"]}
RegistryInputs ==
    {[role |-> r, account |-> a] :
        r \in {DEFAULT_ADMIN_ROLE, ADMIN_ROLE, JUDGE_ROLE, UPGRADER_ROLE},
        a \in {"off", "drv"}}

\* logViolation: the free warning (code 1), two fined offenses (codes 2 and 5,
\* 500 KES each), an unseeded code, and one invalid value per argument
LogInputs ==
    {[vehicleId |-> "KZZ 999Z", offenseCode |-> 1, evidenceHash |-> "QmHash123", driverId |-> "drv"],
     [vehicleId |-> "KZZ 999Z", offenseCode |-> 2, evidenceHash |-> "QmHash123", driverId |-> "drv"],
     [vehicleId |-> "KZZ 999Z", offenseCode |-> 5, evidenceHash |-> "QmHash123", driverId |-> "drv"],
     [vehicleId |-> "KZZ 999Z", offenseCode |-> 16, evidenceHash |-> "QmHash123", driverId |-> "drv"],
     [vehicleId |-> TooLongVehicleId, offenseCode |-> 2, evidenceHash |-> "QmHash123", driverId |-> "drv"],
     [vehicleId |-> "KZZ 999Z", offenseCode |-> 2, evidenceHash |-> "", driverId |-> "drv"],
     [vehicleId |-> "KZZ 999Z", offenseCode |-> 2, evidenceHash |-> "QmHash123", driverId |-> ZeroAddress]}

ReasonInputs == {"I was rushing to the hospital.", ""}
ResolutionInputs == {"Medical emergency verified."}
PaymentInputs == {0, 1000, 1001}
RecipientInputs == {"bank", ZeroAddress}
WithdrawInputs == {1000, 5000}
UpdateInputs == {[code |-> 2, fineAmountKES |-> 500, name |-> "Speeding 6-10 kph over limit", isActive |-> FALSE],
                 [code |-> 2, fineAmountKES |-> 500, name |-> "Speeding 6-10 kph over limit", isActive |-> TRUE]}

\* updateOffense that deactivates a code, redefines it, and defines a new one
CatalogInputs ==
    {[code |-> 2, fineAmountKES |-> 500, name |-> "Speeding 6-10 kph over limit", isActive |-> FALSE],
     [code |-> 2, fineAmountKES |-> 700, name |-> "Speeding 6-10 kph over limit (revised)", isActive |-> TRUE],
     [code |-> 16, fineAmountKES |-> 1000, name |-> "Obstruction", isActive |-> TRUE]}

\* getVehicleViolations(vehicleId, offset, limit): a vehicle with tickets and
\* one without, windows inside, across and beyond the index
PageInputs ==
    {[vehicleId |-> v, offset |-> o, limit |-> l] :
        v \in {"KZZ 999Z", "KAA 111A"}, o \in {0, 1, 2, UINT256_MAX},
        l \in {0, 1, 2, UINT256_MAX}}

\* an identifier no logViolation produces
NoSuchId == <<"", ZeroAddress, 0, 0>>

----------------------------------------------------------------------------
(* Zero values of the mappings, and reads of them *)

ZeroViolation ==
    [violationId |-> NoSuchId, vehicleId |-> "", officerId |-> ZeroAddress,
     offenseCode |-> 0, evidenceHash |-> "", timestamp |-> 0, fineAmount |-> 0,
     status |-> Unpaid, driverId |-> ZeroAddress, paidAmount |-> 0,
     paidBy |-> ZeroAddress]

ZeroOfficer ==
    [officerId |-> ZeroAddress, name |-> "", badgeNumber |-> "", isActive |-> FALSE,
     registrationTime |-> 0, dailyViolationCount |-> 0, lastViolationDate |-> 0]

ZeroAppeal ==
    [violationId |-> NoSuchId, appellant |-> ZeroAddress, appealReason |-> "",
     appealTime |-> 0, resolved |-> FALSE, approved |-> FALSE, resolution |-> "",
     resolvedBy |-> ZeroAddress, appealCount |-> 0, lastAppealTime |-> 0]

ZeroOffense == [fineAmountKES |-> 0, name |-> "", isActive |-> FALSE]

Get(map, key, zero) == IF key \in DOMAIN map THEN map[key] ELSE zero

Put(map, key, value) ==
    [k \in (DOMAIN map) \cup {key} |-> IF k = key THEN value ELSE map[k]]

Violation(id) == Get(violations, id, ZeroViolation)
Appeal(id) == Get(appeals, id, ZeroAppeal)
Officer(a) == Get(officers, a, ZeroOfficer)
Offense(code) == Get(offenses, code, ZeroOffense)
PendingRefund(a) == Get(pendingRefunds, a, 0)
OfficerDailyViolations(a, day) == Get(officerDailyViolations, <<a, day>>, 0)

hasRole(role, account) == account \in roles[role]

\* keccak256(abi.encodePacked(vehicleId, msg.sender, block.timestamp, offenseCode))
ViolationId(vehicleId, sender, timestamp, offenseCode) ==
    <<vehicleId, sender, timestamp, offenseCode>>

IdInputs == (DOMAIN violations) \cup {NoSuchId}

----------------------------------------------------------------------------
(* The state after initialize(Admin) *)

\* _initializeOffenses
InitialOffenses ==
    [code \in 1..15 |->
        [fineAmountKES |->
            CASE code = 1 -> 0
              [] code \in {2, 5} -> 500
              [] code \in {3, 6, 7, 13} -> 3000
              [] code \in {4, 9, 11, 15} -> 10000
              [] code \in {8, 10} -> 5000
              [] code = 12 -> 1000
              [] code = 14 -> 2000,
         name |->
            CASE code = 1 -> "Speeding 1-5 kph over limit (Warning)"
              [] code = 2 -> "Speeding 6-10 kph over limit"
              [] code = 3 -> "Speeding 11-15 kph over limit"
              [] code = 4 -> "Speeding 16-20 kph over limit"
              [] code = 5 -> "Failure to wear seatbelt"
              [] code = 6 -> "Driving without valid license"
              [] code = 7 -> "Failure to obey traffic signs"
              [] code = 8 -> "Failure to stop when signaled by police"
              [] code = 9 -> "Causing obstruction with vehicle"
              [] code = 10 -> "Driving on pavement or pedestrian walkway"
              [] code = 11 -> "Driving without identification plates"
              [] code = 12 -> "Motorcycle carrying more than one pillion passenger"
              [] code = 13 -> "Touting"
              [] code = 14 -> "Using mobile phone while driving"
              [] code = 15 -> "Driving without valid inspection certificate",
         isActive |-> TRUE]]

\* variant: _admin is granted every role
InitialRoles_All == [r \in RoleNames |-> {Admin}]

\* the roles initialize grants to _admin
InitialRoles ==
    [r \in RoleNames |-> IF r = OFFICER_ROLE THEN {} ELSE {Admin}]

\* the funds the principals start with
InitialWallet == [a \in Accounts |-> IF a \in {"off", "drv"} THEN 1001 ELSE 0]

NoFrame == [op |-> "none", sender |-> ZeroAddress, recipient |-> ZeroAddress,
            amount |-> 0, id |-> NoSuchId, saved |-> <<>>]

\* the event log where it is not observed, and where it is
Unobserved == [on |-> FALSE, log |-> <<>>]
Observed == [on |-> TRUE, log |-> <<>>]

\* the state initialize leaves
Constructed ==
    /\ roles = InitialRoles
    /\ paused = FALSE
    /\ reentrancyStatus = NOT_ENTERED
    /\ officers = <<>>
    /\ offenses = InitialOffenses
    /\ violations = <<>>
    /\ vehicleViolations = <<>>
    /\ appeals = <<>>
    /\ totalViolations = 0
    /\ totalFinesPaid = 0
    /\ totalFinesRefunded = 0
    /\ officerDailyViolations = <<>>
    /\ pendingRefunds = <<>>
    /\ balance = 0
    /\ wallet = InitialWallet
    /\ now = 1
    /\ FineRefunded = EmptyBag
    /\ RefundClaimed = EmptyBag
    /\ frame = NoFrame
    /\ nested = 0
    /\ lastError = "ok"

Init == Constructed /\ audit = Unobserved

\* variant: no entry is kept
Emitted_Dropped(a, entries) == a

\* emit: the entries are appended to the event log
Emitted(a, entries) ==
    IF a.on THEN [a EXCEPT !.log = @ \o entries] ELSE a

----------------------------------------------------------------------------
(* Calls, transactions and reverts *)

\* the state a revert of the running transaction restores
Snapshot ==
    [roles |-> roles, paused |-> paused, reentrancyStatus |-> reentrancyStatus,
     officers |-> officers, offenses |-> offenses, violations |-> violations,
     vehicleViolations |-> vehicleViolations, appeals |-> appeals,
     totalViolations |-> totalViolations, totalFinesPaid |-> totalFinesPaid,
     totalFinesRefunded |-> totalFinesRefunded,
     officerDailyViolations |-> officerDailyViolations,
     pendingRefunds |-> pendingRefunds, balance |-> balance, wallet |-> wallet,
     FineRefunded |-> FineRefunded, RefundClaimed |-> RefundClaimed,
     audit |-> audit]

InTransfer == frame.op # "none"

\* a call is either a transaction of its own or made while the recipient of the
\* transfer in progress runs; the account that only receives makes no calls
Enter ==
    IF InTransfer
    THEN frame.recipient \in Principals /\ nested < MaxNested /\ nested' = nested + 1
    ELSE nested' = nested

\* a call that reverts
Revert(error) ==
    /\ lastError' = error
    /\ UNCHANGED <<ledger, now, frame>>

Ok == "ok"

----------------------------------------------------------------------------
(* Modifiers *)

\* modifier validString(_str, maxLength)
validString(str, maxLength) == Len(str) > 0 /\ Len(str) <= maxLength

\* variant: the guard reads the count of the Officer record
rateLimited_ByRecord(sender) ==
    \/ Officer(sender).lastViolationDate # now \div DAY
    \/ Officer(sender).dailyViolationCount < MAX_VIOLATIONS_PER_DAY

\* modifier rateLimited
rateLimited(sender) ==
    OfficerDailyViolations(sender, now \div DAY) < MAX_VIOLATIONS_PER_DAY

\* modifier violationExists(violationId)
violationExists(id) == Violation(id).timestamp # 0

----------------------------------------------------------------------------
(* Officer management *)

registerOfficerError(sender, officerId, name, badgeNumber) ==
    IF ~hasRole(OFFICER_MANAGER_ROLE, sender) THEN "Unauthorized"
    ELSE IF officerId = ZeroAddress THEN "InvalidInput"
    ELSE IF ~validString(name, MAX_STRING_LENGTH) THEN "InvalidInput"
    ELSE IF ~validString(badgeNumber, MAX_BADGE_LENGTH) THEN "InvalidInput"
    ELSE IF paused THEN "Paused"
    ELSE IF Officer(officerId).isActive THEN "InvalidState"
    ELSE Ok

\* variant: every registration writes a new record
RegisteredOfficer_Fresh(officer, officerId, name, badgeNumber) ==
    [officerId |-> officerId, name |-> name, badgeNumber |-> badgeNumber,
     isActive |-> TRUE, registrationTime |-> now, dailyViolationCount |-> 0,
     lastViolationDate |-> 0]

\* the Officer record after registerOfficer: a record that exists is
\* reactivated, otherwise a new one is written
RegisteredOfficer(officer, officerId, name, badgeNumber) ==
    IF officer.registrationTime > 0
    THEN [officer EXCEPT !.isActive = TRUE]
    ELSE [officerId |-> officerId, name |-> name, badgeNumber |-> badgeNumber,
          isActive |-> TRUE, registrationTime |-> now, dailyViolationCount |-> 0,
          lastViolationDate |-> 0]

registerOfficer(sender, officerId, name, badgeNumber) ==
    /\ Enter
    /\ LET error == registerOfficerError(sender, officerId, name, badgeNumber) IN
       IF error # Ok THEN Revert(error)
       ELSE /\ officers' =
                  Put(officers, officerId,
                      RegisteredOfficer(Officer(officerId), officerId, name,
                                        badgeNumber))
            /\ roles' = [roles EXCEPT ![OFFICER_ROLE] = @ \cup {officerId}]
            /\ lastError' = Ok
            /\ audit' = Emitted(audit, IF Officer(officerId).registrationTime > 0
                                      THEN <<"OfficerReactivated">>
                                      ELSE <<"OfficerRegistered">>)
            /\ UNCHANGED <<paused, reentrancyStatus, offenses, violations,
                           vehicleViolations, appeals, totalViolations,
                           totalFinesPaid, totalFinesRefunded,
                           officerDailyViolations, pendingRefunds, balance, wallet,
                           now, FineRefunded, RefundClaimed, frame>>

deactivateOfficerError(sender, officerId) ==
    IF ~hasRole(OFFICER_MANAGER_ROLE, sender) THEN "Unauthorized"
    ELSE IF paused THEN "Paused"
    ELSE IF ~Officer(officerId).isActive THEN "InvalidState"
    ELSE Ok

deactivateOfficer(sender, officerId) ==
    /\ Enter
    /\ LET error == deactivateOfficerError(sender, officerId) IN
       IF error # Ok THEN Revert(error)
       ELSE /\ officers' = [officers EXCEPT ![officerId].isActive = FALSE]
            /\ roles' = [roles EXCEPT ![OFFICER_ROLE] = @ \ {officerId}]
            /\ lastError' = Ok
            /\ audit' = Emitted(audit, <<"OfficerDeactivated">>)
            /\ UNCHANGED <<paused, reentrancyStatus, offenses, violations,
                           vehicleViolations, appeals, totalViolations,
                           totalFinesPaid, totalFinesRefunded,
                           officerDailyViolations, pendingRefunds, balance, wallet,
                           now, FineRefunded, RefundClaimed, frame>>

isOfficerActive(officerId) ==
    Officer(officerId).isActive /\ hasRole(OFFICER_ROLE, officerId)

----------------------------------------------------------------------------
(* Violations *)

\* variant: the offense code is not looked up
logViolationError_AnyCode(sender, vehicleId, offenseCode, evidenceHash, driverId) ==
    IF ~hasRole(OFFICER_ROLE, sender) THEN "Unauthorized"
    ELSE IF ~rateLimited(sender) THEN "RateLimited"
    ELSE IF ~validString(vehicleId, MAX_VEHICLE_ID_LENGTH) THEN "InvalidInput"
    ELSE IF ~validString(evidenceHash, MAX_STRING_LENGTH) THEN "InvalidInput"
    ELSE IF driverId = ZeroAddress THEN "InvalidInput"
    ELSE IF paused THEN "Paused"
    ELSE Ok

logViolationError(sender, vehicleId, offenseCode, evidenceHash, driverId) ==
    IF ~hasRole(OFFICER_ROLE, sender) THEN "Unauthorized"
    ELSE IF ~rateLimited(sender) THEN "RateLimited"
    ELSE IF ~validString(vehicleId, MAX_VEHICLE_ID_LENGTH) THEN "InvalidInput"
    ELSE IF ~validString(evidenceHash, MAX_STRING_LENGTH) THEN "InvalidInput"
    ELSE IF driverId = ZeroAddress THEN "InvalidInput"
    ELSE IF paused THEN "Paused"
    ELSE IF ~Offense(offenseCode).isActive THEN "InvalidInput"
    ELSE Ok

\* variant: the count is never reset
CountViolation_NoReset(officer) ==
    [officer EXCEPT !.dailyViolationCount = @ + 1,
                    !.lastViolationDate = now \div DAY]

\* the Officer record after the rate limiting update
CountViolation(officer) ==
    LET today == now \div DAY
        reset == IF officer.lastViolationDate # today
                 THEN [officer EXCEPT !.dailyViolationCount = 0,
                                      !.lastViolationDate = today]
                 ELSE officer
    IN [reset EXCEPT !.dailyViolationCount = @ + 1]

\* the record logViolation stores
NewViolation(id, sender, vehicleId, offenseCode, evidenceHash, driverId) ==
    [violationId |-> id, vehicleId |-> vehicleId, officerId |-> sender,
     offenseCode |-> offenseCode, evidenceHash |-> evidenceHash,
     timestamp |-> now,
     fineAmount |-> Offense(offenseCode).fineAmountKES * KES_TO_WEI_RATE,
     status |-> Unpaid, driverId |-> driverId, paidAmount |-> 0,
     paidBy |-> ZeroAddress]

logViolation(sender, vehicleId, offenseCode, evidenceHash, driverId) ==
    /\ Enter
    /\ LET error == logViolationError(sender, vehicleId, offenseCode, evidenceHash, driverId)
           id == ViolationId(vehicleId, sender, now, offenseCode)
       IN
       IF error # Ok THEN Revert(error)
       ELSE /\ officers' = Put(officers, sender, CountViolation(Officer(sender)))
            /\ violations' =
                  Put(violations, id,
                      NewViolation(id, sender, vehicleId, offenseCode, evidenceHash, driverId))
            /\ vehicleViolations' =
                  Put(vehicleViolations, vehicleId,
                      Append(Get(vehicleViolations, vehicleId, <<>>), id))
            /\ totalViolations' = totalViolations + 1
            /\ lastError' = Ok
            /\ audit' = Emitted(audit, <<"ViolationLogged">>)
            /\ UNCHANGED <<roles, paused, reentrancyStatus, offenses, appeals,
                           totalFinesPaid, totalFinesRefunded,
                           officerDailyViolations, pendingRefunds, balance, wallet,
                           now, FineRefunded, RefundClaimed, frame>>

\* getVehicleViolations: offset + limit is checked uint256 arithmetic
getVehicleViolationsError(vehicleId, offset, limit) ==
    LET allViolations == Get(vehicleViolations, vehicleId, <<>>) IN
    IF offset >= Len(allViolations) THEN Ok
    ELSE IF offset + limit > UINT256_MAX THEN "Panic"
    ELSE Ok

\* the array getVehicleViolations returns
getVehicleViolations(vehicleId, offset, limit) ==
    LET allViolations == Get(vehicleViolations, vehicleId, <<>>) IN
    IF offset >= Len(allViolations) THEN <<>>
    ELSE LET sum == offset + limit
             end == IF sum > Len(allViolations) THEN Len(allViolations) ELSE sum
         IN [i \in 1..(end - offset) |-> allViolations[offset + i]]

\* a call of the view function: it writes nothing
viewVehicleViolations(vehicleId, offset, limit) ==
    /\ ~InTransfer
    /\ lastError' = getVehicleViolationsError(vehicleId, offset, limit)
    /\ UNCHANGED <<ledger, now, frame, nested>>

----------------------------------------------------------------------------
(* Outbound transfers *)

Calling == "calling"

\* (bool success, ) = payable(recipient).call{value: amount}(""): the value
\* leaves the ledger and the recipient runs
StartTransfer(op, sender, recipient, amount, id, saved) ==
    /\ frame' = [op |-> op, sender |-> sender, recipient |-> recipient,
                 amount |-> amount, id |-> id, saved |-> saved]
    /\ reentrancyStatus' = ENTERED
    /\ lastError' = Calling

\* variant: a failed transfer is ignored
KeptAfterFailedTransfer(saved, current) == current

\* require(success, ...): the state a failed transfer leaves
AfterFailedTransfer(saved, current) == saved

\* the events emitted after the transfer
EmitAfterTransfer(f, claimed) ==
    IF f.op = "claimRefund"
    THEN claimed (+) SetToBag({[claimant |-> f.sender, amount |-> f.amount]})
    ELSE claimed

\* the entry the function emits after its transfer
EntriesAfterTransfer(f) ==
    CASE f.op = "payFine" -> <<"FinePaid">>
      [] f.op = "claimRefund" -> <<"RefundClaimed">>
      [] f.op = "withdrawFunds" -> <<"FundsWithdrawn">>

\* the recipient returns: the function runs to its end, or reverts
TransferReturn(success) ==
    /\ InTransfer
    /\ frame' = NoFrame
    /\ nested' = 0
    /\ reentrancyStatus' = NOT_ENTERED
    /\ UNCHANGED now
    /\ IF success
       THEN /\ RefundClaimed' = EmitAfterTransfer(frame, RefundClaimed)
            /\ audit' = Emitted(audit, EntriesAfterTransfer(frame))
            /\ lastError' = Ok
            /\ UNCHANGED <<roles, paused, officers, offenses, violations,
                           vehicleViolations, appeals, totalViolations,
                           totalFinesPaid, totalFinesRefunded,
                           officerDailyViolations, pendingRefunds, balance, wallet,
                           FineRefunded>>
       ELSE LET s == AfterFailedTransfer(frame.saved, Snapshot) IN
            /\ roles' = s.roles
            /\ paused' = s.paused
            /\ officers' = s.officers
            /\ offenses' = s.offenses
            /\ violations' = s.violations
            /\ vehicleViolations' = s.vehicleViolations
            /\ appeals' = s.appeals
            /\ totalViolations' = s.totalViolations
            /\ totalFinesPaid' = s.totalFinesPaid
            /\ totalFinesRefunded' = s.totalFinesRefunded
            /\ officerDailyViolations' = s.officerDailyViolations
            /\ pendingRefunds' = s.pendingRefunds
            /\ balance' = s.balance
            /\ wallet' = s.wallet
            /\ FineRefunded' = s.FineRefunded
            /\ RefundClaimed' = s.RefundClaimed
            /\ audit' = s.audit
            /\ lastError' = "TransferFailed"

----------------------------------------------------------------------------
(* Fine payment *)

payFineError(id, value) ==
    IF reentrancyStatus = ENTERED THEN "Reentrant"
    ELSE IF ~violationExists(id) THEN "NotFound"
    ELSE IF paused THEN "Paused"
    ELSE IF Violation(id).status # Unpaid THEN "InvalidState"
    ELSE IF ~(value >= Violation(id).fineAmount) THEN "InvalidInput"
    ELSE Ok

\* variant: the amount paid is not recorded
PaidViolation_NoAmount(violation, sender) ==
    [violation EXCEPT !.status = Paid, !.paidBy = sender]

\* the bookkeeping of payFine on the violation
PaidViolation(violation, sender) ==
    [violation EXCEPT !.status = Paid,
                      !.paidAmount = violation.fineAmount,
                      !.paidBy = sender]

\* variant: the whole payment is kept
NoExcess(value, fineAmount) == 0

\* the part of the payment payFine sends back
Excess(value, fineAmount) == value - fineAmount

payFine(sender, id, value) ==
    /\ Enter
    /\ value <= wallet[sender]
    /\ LET error == payFineError(id, value)
           fine == Violation(id).fineAmount
           back == Excess(value, fine)
       IN
       IF error # Ok THEN Revert(error)
       ELSE /\ violations' = [violations EXCEPT ![id] = PaidViolation(@, sender)]
            /\ totalFinesPaid' = totalFinesPaid + fine
            /\ balance' = balance + value - back
            /\ wallet' = [wallet EXCEPT ![sender] = @ - value + back]
            /\ IF value > fine
               THEN /\ StartTransfer("payFine", sender, sender, back, id, Snapshot)
                    /\ UNCHANGED audit
               ELSE /\ lastError' = Ok
                    /\ audit' = Emitted(audit, <<"FinePaid">>)
                    /\ UNCHANGED <<frame, reentrancyStatus>>
            /\ UNCHANGED <<roles, paused, officers, offenses, vehicleViolations,
                           appeals, totalViolations, totalFinesRefunded,
                           officerDailyViolations, pendingRefunds, now,
                           FineRefunded, RefundClaimed>>

----------------------------------------------------------------------------
(* Appeals *)

\* variant: anybody may appeal
submitAppealError_AnyCaller(sender, id, appealReason) ==
    IF ~violationExists(id) THEN "NotFound"
    ELSE IF paused THEN "Paused"
    ELSE IF Violation(id).status \notin {Unpaid, Paid} THEN "InvalidState"
    ELSE IF ~(Len(appealReason) > 0) THEN "InvalidInput"
    ELSE IF Appeal(id).resolved THEN "InvalidState"
    ELSE IF ~(Appeal(id).appealCount < MAX_APPEALS_PER_VIOLATION) THEN "InvalidState"
    ELSE IF /\ Appeal(id).appealCount > 0
            /\ ~(now >= Appeal(id).lastAppealTime + APPEAL_COOLDOWN) THEN "InvalidState"
    ELSE Ok

submitAppealError(sender, id, appealReason) ==
    IF ~violationExists(id) THEN "NotFound"
    ELSE IF paused THEN "Paused"
    ELSE IF Violation(id).status \notin {Unpaid, Paid} THEN "InvalidState"
    ELSE IF sender # Violation(id).driverId THEN "Unauthorized"
    ELSE IF ~(Len(appealReason) > 0) THEN "InvalidInput"
    ELSE IF Appeal(id).resolved THEN "InvalidState"
    ELSE IF ~(Appeal(id).appealCount < MAX_APPEALS_PER_VIOLATION) THEN "InvalidState"
    ELSE IF /\ Appeal(id).appealCount > 0
            /\ ~(now >= Appeal(id).lastAppealTime + APPEAL_COOLDOWN) THEN "InvalidState"
    ELSE Ok

submitAppeal(sender, id, appealReason) ==
    /\ Enter
    /\ LET error == submitAppealError(sender, id, appealReason) IN
       IF error # Ok THEN Revert(error)
       ELSE /\ violations' = [violations EXCEPT ![id].status = Appealed]
            /\ appeals' =
                  Put(appeals, id,
                      [Appeal(id) EXCEPT !.violationId = id,
                                         !.appellant = sender,
                                         !.appealReason = appealReason,
                                         !.appealTime = now,
                                         !.resolved = FALSE,
                                         !.approved = FALSE,
                                         !.resolution = "",
                                         !.appealCount = @ + 1,
                                         !.lastAppealTime = now])
            /\ lastError' = Ok
            /\ audit' = Emitted(audit, <<"AppealSubmitted">>)
            /\ UNCHANGED <<roles, paused, reentrancyStatus, officers, offenses,
                           vehicleViolations, totalViolations, totalFinesPaid,
                           totalFinesRefunded, officerDailyViolations,
                           pendingRefunds, balance, wallet, now, FineRefunded,
                           RefundClaimed, frame>>

\* variant: without the checks of the status and of the resolved flag
resolveAppealError_Unchecked(sender, id) ==
    IF ~hasRole(JUDGE_ROLE, sender) THEN "Unauthorized"
    ELSE IF ~violationExists(id) THEN "NotFound"
    ELSE IF paused THEN "Paused"
    ELSE Ok

resolveAppealError(sender, id) ==
    IF ~hasRole(JUDGE_ROLE, sender) THEN "Unauthorized"
    ELSE IF ~violationExists(id) THEN "NotFound"
    ELSE IF paused THEN "Paused"
    ELSE IF Violation(id).status # Appealed THEN "InvalidState"
    ELSE IF Appeal(id).resolved THEN "InvalidState"
    ELSE Ok

\* variant: an approved appeal gives Waived whether the fine was paid or not
ResolvedStatus_WaivedAlways(approve, paidAmount) ==
    IF approve
    THEN Waived
    ELSE IF paidAmount > 0 THEN Paid ELSE Rejected

\* variant: a rejected appeal gives Rejected whether the fine was paid or not
ResolvedStatus_RejectedAlways(approve, paidAmount) ==
    IF approve
    THEN IF paidAmount > 0 THEN Refunded ELSE Waived
    ELSE Rejected

\* the status resolveAppeal gives the violation
ResolvedStatus(approve, paidAmount) ==
    IF approve
    THEN IF paidAmount > 0 THEN Refunded ELSE Waived
    ELSE IF paidAmount > 0 THEN Paid ELSE Rejected

\* variant: the payment is queued whatever the decision is
RefundCredit_AnyDecision(approve, paidAmount) ==
    IF paidAmount > 0 THEN paidAmount ELSE 0

\* the amount resolveAppeal queues for the payer
RefundCredit(approve, paidAmount) ==
    IF approve /\ paidAmount > 0 THEN paidAmount ELSE 0

resolveAppeal(sender, id, approve, resolution) ==
    /\ Enter
    /\ LET error == resolveAppealError(sender, id)
           violation == Violation(id)
           credit == RefundCredit(approve, violation.paidAmount)
       IN
       IF error # Ok THEN Revert(error)
       ELSE /\ appeals' = Put(appeals, id,
                               [Appeal(id) EXCEPT !.resolved = TRUE,
                                                  !.approved = approve,
                                                  !.resolution = resolution,
                                                  !.resolvedBy = sender])
            /\ violations' =
                  [violations EXCEPT ![id].status =
                      ResolvedStatus(approve, violation.paidAmount)]
            /\ IF credit > 0
               THEN /\ pendingRefunds' =
                          Put(pendingRefunds, violation.paidBy,
                              PendingRefund(violation.paidBy) + credit)
                    /\ totalFinesRefunded' = totalFinesRefunded + credit
                    /\ FineRefunded' = FineRefunded (+)
                          SetToBag({[violationId |-> id,
                                     refundedTo |-> violation.paidBy,
                                     amount |-> credit]})
               ELSE UNCHANGED <<pendingRefunds, totalFinesRefunded, FineRefunded>>
            /\ lastError' = Ok
            /\ audit' = Emitted(audit, IF credit > 0
                                      THEN <<"FineRefunded", "AppealResolved">>
                                      ELSE <<"AppealResolved">>)
            /\ UNCHANGED <<roles, paused, reentrancyStatus, officers, offenses,
                           vehicleViolations, totalViolations, totalFinesPaid,
                           officerDailyViolations, balance, wallet, now,
                           RefundClaimed, frame>>

\* variant: without nonReentrant
claimRefundError_Unguarded(sender) ==
    IF paused THEN "Paused"
    ELSE IF ~(PendingRefund(sender) > 0) THEN "InvalidInput"
    ELSE IF PendingRefund(sender) > balance THEN "TransferFailed"
    ELSE Ok

claimRefundError(sender) ==
    IF reentrancyStatus = ENTERED THEN "Reentrant"
    ELSE IF paused THEN "Paused"
    ELSE IF ~(PendingRefund(sender) > 0) THEN "InvalidInput"
    ELSE IF PendingRefund(sender) > balance THEN "TransferFailed"
    ELSE Ok

\* variant: the balance is not cleared
KeptRefunds(refunds, sender) == refunds

\* pendingRefunds[msg.sender] = 0
ClearedRefunds(refunds, sender) == Put(refunds, sender, 0)

claimRefund(sender) ==
    /\ Enter
    /\ LET error == claimRefundError(sender)
           amount == PendingRefund(sender)
       IN
       IF error # Ok THEN Revert(error)
       ELSE /\ pendingRefunds' = ClearedRefunds(pendingRefunds, sender)
            /\ balance' = balance - amount
            /\ wallet' = [wallet EXCEPT ![sender] = @ + amount]
            /\ StartTransfer("claimRefund", sender, sender, amount, NoSuchId, Snapshot)
            /\ UNCHANGED <<roles, paused, officers, offenses, violations,
                           vehicleViolations, appeals, totalViolations,
                           totalFinesPaid, totalFinesRefunded,
                           officerDailyViolations, now, FineRefunded,
                           RefundClaimed, audit>>

----------------------------------------------------------------------------
(* Administration and treasury *)

updateOffenseError(sender) ==
    IF ~hasRole(ADMIN_ROLE, sender) THEN "Unauthorized" ELSE Ok

updateOffense(sender, offenseCode, fineAmountKES, name, isActive) ==
    /\ Enter
    /\ LET error == updateOffenseError(sender) IN
       IF error # Ok THEN Revert(error)
       ELSE /\ offenses' = Put(offenses, offenseCode,
                               [fineAmountKES |-> fineAmountKES, name |-> name,
                                isActive |-> isActive])
            /\ lastError' = Ok
            /\ audit' = Emitted(audit, <<"OffenseUpdated">>)
            /\ UNCHANGED <<roles, paused, reentrancyStatus, officers, violations,
                           vehicleViolations, appeals, totalViolations,
                           totalFinesPaid, totalFinesRefunded,
                           officerDailyViolations, pendingRefunds, balance, wallet,
                           now, FineRefunded, RefundClaimed, frame>>

withdrawFundsError(sender, recipient, amount) ==
    IF ~hasRole(TREASURY_ROLE, sender) THEN "Unauthorized"
    ELSE IF reentrancyStatus = ENTERED THEN "Reentrant"
    ELSE IF ~(amount <= balance) THEN "InvalidInput"
    ELSE IF recipient = ZeroAddress THEN "InvalidInput"
    ELSE Ok

withdrawFunds(sender, recipient, amount) ==
    /\ Enter
    /\ LET error == withdrawFundsError(sender, recipient, amount) IN
       IF error # Ok THEN Revert(error)
       ELSE /\ balance' = balance - amount
            /\ wallet' = [wallet EXCEPT ![recipient] = @ + amount]
            /\ StartTransfer("withdrawFunds", sender, recipient, amount, NoSuchId, Snapshot)
            /\ UNCHANGED <<roles, paused, officers, offenses, violations,
                           vehicleViolations, appeals, totalViolations,
                           totalFinesPaid, totalFinesRefunded,
                           officerDailyViolations, pendingRefunds, now,
                           FineRefunded, RefundClaimed, audit>>

\* variant: pause accepted whatever the flag
pauseError_Idempotent(sender) ==
    IF ~hasRole(ADMIN_ROLE, sender) THEN "Unauthorized" ELSE Ok

pauseError(sender) ==
    IF ~hasRole(ADMIN_ROLE, sender) THEN "Unauthorized"
    ELSE IF paused THEN "Paused"
    ELSE Ok

pause(sender) ==
    /\ Enter
    /\ LET error == pauseError(sender) IN
       IF error # Ok THEN Revert(error)
       ELSE /\ paused' = TRUE
            /\ lastError' = Ok
            /\ audit' = Emitted(audit, <<"Paused">>)
            /\ UNCHANGED <<roles, reentrancyStatus, officers, offenses, violations,
                           vehicleViolations, appeals, totalViolations,
                           totalFinesPaid, totalFinesRefunded,
                           officerDailyViolations, pendingRefunds, balance, wallet,
                           now, FineRefunded, RefundClaimed, frame>>

\* variant: the state check before the role check
unpauseError_StateFirst(sender) ==
    IF ~paused THEN "InvalidState"
    ELSE IF ~hasRole(ADMIN_ROLE, sender) THEN "Unauthorized"
    ELSE Ok

unpauseError(sender) ==
    IF ~hasRole(ADMIN_ROLE, sender) THEN "Unauthorized"
    ELSE IF ~paused THEN "InvalidState"
    ELSE Ok

unpause(sender) ==
    /\ Enter
    /\ LET error == unpauseError(sender) IN
       IF error # Ok THEN Revert(error)
       ELSE /\ paused' = FALSE
            /\ lastError' = Ok
            /\ audit' = Emitted(audit, <<"Unpaused">>)
            /\ UNCHANGED <<roles, reentrancyStatus, officers, offenses, violations,
                           vehicleViolations, appeals, totalViolations,
                           totalFinesPaid, totalFinesRefunded,
                           officerDailyViolations, pendingRefunds, balance, wallet,
                           now, FineRefunded, RefundClaimed, frame>>

----------------------------------------------------------------------------
(* Capability Registry: grant and revoke *)

\* the caller holds the super-administrative capability or, for the Upgrader
\* role, the Admin capability
mayAdminister(sender, role) ==
    \/ hasRole(DEFAULT_ADMIN_ROLE, sender)
    \/ role = UPGRADER_ROLE /\ hasRole(ADMIN_ROLE, sender)

\* variant: the super-administrative capability only
grantRoleError_SuperOnly(sender, role) ==
    IF ~hasRole(DEFAULT_ADMIN_ROLE, sender) THEN "Unauthorized" ELSE Ok

grantRoleError(sender, role) ==
    IF ~mayAdminister(sender, role) THEN "Unauthorized" ELSE Ok

grantRole(sender, role, account) ==
    /\ Enter
    /\ LET error == grantRoleError(sender, role) IN
       IF error # Ok THEN Revert(error)
       ELSE /\ roles' = [roles EXCEPT ![role] = @ \cup {account}]
            /\ lastError' = Ok
            /\ audit' = Emitted(audit, IF account \in roles[role] THEN <<>>
                                      ELSE <<"RoleGranted">>)
            /\ UNCHANGED <<paused, reentrancyStatus, officers, offenses, violations,
                           vehicleViolations, appeals, totalViolations,
                           totalFinesPaid, totalFinesRefunded,
                           officerDailyViolations, pendingRefunds, balance, wallet,
                           now, FineRefunded, RefundClaimed, frame>>

revokeRoleError(sender, role) ==
    IF ~mayAdminister(sender, role) THEN "Unauthorized" ELSE Ok

revokeRole(sender, role, account) ==
    /\ Enter
    /\ LET error == revokeRoleError(sender, role) IN
       IF error # Ok THEN Revert(error)
       ELSE /\ roles' = [roles EXCEPT ![role] = @ \ {account}]
            /\ lastError' = Ok
            /\ audit' = Emitted(audit, IF account \in roles[role] THEN <<"RoleRevoked">>
                                      ELSE <<>>)
            /\ UNCHANGED <<paused, reentrancyStatus, officers, offenses, violations,
                           vehicleViolations, appeals, totalViolations,
                           totalFinesPaid, totalFinesRefunded,
                           officerDailyViolations, pendingRefunds, balance, wallet,
                           now, FineRefunded, RefundClaimed, frame>>

----------------------------------------------------------------------------
(* Time *)

\* a later block: block.timestamp grows between transactions
Tick ==
    /\ ~InTransfer
    /\ now < MaxTime
    /\ now' = now + 1
    /\ UNCHANGED <<ledger, frame, nested, lastError>>

----------------------------------------------------------------------------
(* The specifications *)

\* every function but logViolation, called by anyone
Call ==
    \/ \E sender \in Principals, r \in RegisterInputs :
          registerOfficer(sender, r.officerId, r.name, r.badgeNumber)
    \/ \E sender \in Principals, officerId \in OfficerInputs :
          deactivateOfficer(sender, officerId)
    \/ \E sender \in Principals, id \in IdInputs, value \in PaymentInputs :
          payFine(sender, id, value)
    \/ \E sender \in Principals, id \in IdInputs, appealReason \in ReasonInputs :
          submitAppeal(sender, id, appealReason)
    \/ \E sender \in Principals, id \in IdInputs, approve \in BOOLEAN,
          resolution \in ResolutionInputs :
          resolveAppeal(sender, id, approve, resolution)
    \/ \E sender \in Principals : claimRefund(sender)
    \/ \E sender \in Principals, u \in UpdateInputs :
          updateOffense(sender, u.code, u.fineAmountKES, u.name, u.isActive)
    \/ \E sender \in Principals, recipient \in RecipientInputs,
          amount \in WithdrawInputs :
          withdrawFunds(sender, recipient, amount)
    \/ \E sender \in Principals : pause(sender)
    \/ \E sender \in Principals : unpause(sender)
    \/ \E success \in BOOLEAN : TransferReturn(success)

\* at most max violations are logged
Log(max, inputs) ==
    \E sender \in Principals, v \in inputs :
        /\ totalViolations < max
        /\ logViolation(sender, v.vehicleId, v.offenseCode, v.evidenceHash, v.driverId)

\* the transactions of one block; the officer issues fined tickets
Next == Call \/ Log(MaxViolations, {v \in LogInputs : v.offenseCode # 1})

Spec == Init /\ [][Next]_vars

\* registerOfficer under another name
Reregister ==
    \E sender \in Principals, r \in ReregisterInputs :
        registerOfficer(sender, r.officerId, r.name, r.badgeNumber)

\* transactions over several blocks; one ticket, the free warning included
NextTime ==
    Call \/ Reregister \/ Log(MaxViolationsTime, {v \in LogInputs : v.offenseCode # 5}) \/ Tick

SpecTime == Init /\ [][NextTime]_vars

\* grant and revoke of a role, called by anyone
RoleCall ==
    \/ \E sender \in Principals, g \in RoleInputs : grantRole(sender, g.role, g.account)
    \/ \E sender \in Principals, g \in RoleInputs : revokeRole(sender, g.role, g.account)

\* the transactions of one block, the Capability Registry included; one ticket
NextRoles ==
    Call \/ RoleCall \/ Log(MaxViolationsTime, {v \in LogInputs : v.offenseCode # 5})

SpecRoles == Init /\ [][NextRoles]_vars

\* the officer's tickets
RateInputs ==
    {[vehicleId |-> "KZZ 999Z", offenseCode |-> 2, evidenceHash |-> "QmHash123",
      driverId |-> "drv"]}

\* an officer is registered and issues tickets to one vehicle, today and tomorrow
NextRate ==
    \/ \E sender \in Principals, r \in RegisterInputs :
          registerOfficer(sender, r.officerId, r.name, r.badgeNumber)
    \/ Log(MaxViolationsRate, RateInputs)
    \/ Tick

SpecRate == Init /\ [][NextRate]_vars

\* the catalog changes while an officer issues tickets under codes 2 and 16
NextCatalog ==
    \/ \E sender \in Principals, r \in RegisterInputs :
          registerOfficer(sender, r.officerId, r.name, r.badgeNumber)
    \/ \E sender \in Principals, u \in CatalogInputs :
          updateOffense(sender, u.code, u.fineAmountKES, u.name, u.isActive)
    \/ Log(MaxViolations, {v \in LogInputs : v.offenseCode \in {2, 16}})

SpecCatalog == Init /\ [][NextCatalog]_vars

\* the registry alone: roles are granted to and revoked from two accounts
NextRegistry ==
    \/ \E sender \in Principals, g \in RegistryInputs :
          grantRole(sender, g.role, g.account)
    \/ \E sender \in Principals, g \in RegistryInputs :
          revokeRole(sender, g.role, g.account)

SpecRegistry == Init /\ [][NextRegistry]_vars

\* an officer issues tickets for one vehicle and the index is read by pages
NextPage ==
    \/ \E sender \in Principals, r \in RegisterInputs :
          registerOfficer(sender, r.officerId, r.name, r.badgeNumber)
    \/ Log(MaxViolations, {v \in LogInputs : v.offenseCode \in {2, 5}})
    \/ Tick
    \/ \E q \in PageInputs : viewVehicleViolations(q.vehicleId, q.offset, q.limit)

SpecPage == Init /\ [][NextPage]_vars

\* the event log has room for the entries of one more call
NotFull == Len(audit.log) < MaxAudit

InitAudit == Constructed /\ audit = Observed

\* every entry point, with the event log observed
NextAudit ==
    \/ \E sender \in Principals, r \in RegisterInputs :
          NotFull /\ registerOfficer(sender, r.officerId, r.name, r.badgeNumber)
    \/ \E sender \in Principals, officerId \in OfficerInputs :
          NotFull /\ deactivateOfficer(sender, officerId)
    \/ \E sender \in Principals, v \in RateInputs :
          /\ NotFull /\ totalViolations < MaxViolationsTime
          /\ logViolation(sender, v.vehicleId, v.offenseCode, v.evidenceHash, v.driverId)
    \/ \E sender \in Principals, id \in IdInputs, value \in PaymentInputs :
          NotFull /\ payFine(sender, id, value)
    \/ \E sender \in Principals, id \in IdInputs, appealReason \in ReasonInputs :
          NotFull /\ submitAppeal(sender, id, appealReason)
    \/ \E sender \in Principals, id \in IdInputs, approve \in BOOLEAN,
          resolution \in ResolutionInputs :
          NotFull /\ resolveAppeal(sender, id, approve, resolution)
    \/ \E sender \in Principals : NotFull /\ claimRefund(sender)
    \/ \E sender \in Principals, u \in UpdateInputs :
          NotFull /\ updateOffense(sender, u.code, u.fineAmountKES, u.name, u.isActive)
    \/ \E sender \in Principals, recipient \in RecipientInputs,
          amount \in WithdrawInputs :
          NotFull /\ withdrawFunds(sender, recipient, amount)
    \/ \E sender \in Principals : NotFull /\ pause(sender)
    \/ \E sender \in Principals : NotFull /\ unpause(sender)
    \/ \E sender \in Principals, g \in RoleInputs :
          NotFull /\ grantRole(sender, g.role, g.account)
    \/ \E sender \in Principals, g \in RoleInputs :
          NotFull /\ revokeRole(sender, g.role, g.account)
    \/ \E success \in BOOLEAN : TransferReturn(success)

SpecAudit == InitAudit /\ [][NextAudit]_vars

\* an officer issues tickets over two days, is deactivated and registered
\* again, and the registry grants and revokes the Officer role
NextDaily ==
    \/ \E sender \in Principals, r \in RegisterInputs :
          registerOfficer(sender, r.officerId, r.name, r.badgeNumber)
    \/ Reregister
    \/ \E sender \in Principals, officerId \in OfficerInputs :
          deactivateOfficer(sender, officerId)
    \/ RoleCall
    \/ Log(MaxViolationsDaily, {v \in LogInputs : v.offenseCode \in {2, 5}})
    \/ Tick

SpecDaily == Init /\ [][NextDaily]_vars

----------------------------------------------------------------------------
(* Vocabulary of the properties *)

\* the step is the revert of the transaction whose transfer failed
Rollback == InTransfer /\ lastError' = "TransferFailed"

\* the step starts the outbound transfer of function op
Starts(op) == ~InTransfer /\ frame'.op = op

\* the step completes the function whose transfer was in progress
Completes(op) == frame.op = op /\ frame'.op = "none" /\ lastError' = Ok

RECURSIVE SumPaidAmount(_, _)
SumPaidAmount(vs, ids) ==
    IF ids = {} THEN 0
    ELSE LET id == CHOOSE x \in ids : TRUE
         IN vs[id].paidAmount + SumPaidAmount(vs, ids \ {id})

\* the sum of paidAmount over the violations whose status is in statuses
PaidAmountIn(statuses) ==
    SumPaidAmount(violations, {id \in DOMAIN violations : violations[id].status \in statuses})

RECURSIVE SumAmount(_, _)
SumAmount(bag, events) ==
    IF events = {} THEN 0
    ELSE LET e == CHOOSE x \in events : TRUE
         IN e.amount * bag[e] + SumAmount(bag, events \ {e})

\* the total the refund queue was credited with on behalf of payer
Credited(payer) ==
    SumAmount(FineRefunded, {e \in DOMAIN FineRefunded : e.refundedTo = payer})

\* the total claimRefund has sent to claimant, the transfer in progress included
ClaimedOut(claimant) ==
    SumAmount(RefundClaimed, {e \in DOMAIN RefundClaimed : e.claimant = claimant})
    + (IF frame.op = "claimRefund" /\ frame.sender = claimant THEN frame.amount ELSE 0)

RECURSIVE SumCopies(_, _)
SumCopies(bag, events) ==
    IF events = {} THEN 0
    ELSE LET e == CHOOSE x \in events : TRUE
         IN bag[e] + SumCopies(bag, events \ {e})

\* the number of times the queue was credited on behalf of violation id
CreditsOf(id) ==
    SumCopies(FineRefunded, {e \in DOMAIN FineRefunded : e.violationId = id})

----------------------------------------------------------------------------
(* C1: lifecycle closure *)

StatusEdges ==
    {<<Unpaid, Paid>>, <<Unpaid, Appealed>>, <<Paid, Appealed>>,
     <<Appealed, Waived>>, <<Appealed, Refunded>>, <<Appealed, Rejected>>,
     <<Appealed, Paid>>}

\* C1: in every step that is not the revert of a failed transaction, a violation
\* that exists keeps its status or changes it along an edge of the state graph
\* (so Waived, Rejected and Refunded are never left and Unpaid never becomes
\* Refunded), and a violation that is new is Unpaid.
C1_LifecycleClosure ==
    [][Rollback \/
       /\ DOMAIN violations \subseteq DOMAIN violations'
       /\ \A id \in DOMAIN violations' :
             IF id \in DOMAIN violations
             THEN \/ violations'[id].status = violations[id].status
                  \/ <<violations[id].status, violations'[id].status>> \in StatusEdges
             ELSE violations'[id].status = Unpaid]_vars

----------------------------------------------------------------------------
(* C2: role gating *)

\* every call of a gated function by sender, who lacks the role, is refused as
\* Unauthorized, whatever the other arguments are
RefusedWithout(sender) ==
    /\ ~hasRole(OFFICER_MANAGER_ROLE, sender) =>
          /\ \A r \in RegisterInputs :
                registerOfficerError(sender, r.officerId, r.name, r.badgeNumber)
                   = "Unauthorized"
          /\ \A officerId \in OfficerInputs \cup {ZeroAddress} :
                deactivateOfficerError(sender, officerId) = "Unauthorized"
    /\ ~hasRole(OFFICER_ROLE, sender) =>
          \A v \in LogInputs :
             logViolationError(sender, v.vehicleId, v.offenseCode, v.evidenceHash,
                               v.driverId) = "Unauthorized"
    /\ ~hasRole(JUDGE_ROLE, sender) =>
          \A id \in IdInputs : resolveAppealError(sender, id) = "Unauthorized"
    /\ ~hasRole(ADMIN_ROLE, sender) =>
          /\ updateOffenseError(sender) = "Unauthorized"
          /\ pauseError(sender) = "Unauthorized"
          /\ unpauseError(sender) = "Unauthorized"
    /\ ~hasRole(TREASURY_ROLE, sender) =>
          \A recipient \in RecipientInputs, amount \in WithdrawInputs :
             withdrawFundsError(sender, recipient, amount) = "Unauthorized"

\* C2: in every state, paused or not and with a transfer in progress or not, a
\* gated call by a principal without the role is refused as Unauthorized, and a
\* step that ends in Unauthorized leaves officers, offenses, violations, appeals,
\* statistics, pending refunds, role grants, the pause flag and the funds as
\* they were.
C2_RoleGating ==
    /\ [](\A sender \in Principals : RefusedWithout(sender))
    /\ [][lastError' = "Unauthorized" => UNCHANGED <<ledger, now, frame>>]_vars

\* a principal without any role was refused while the system is paused and a
\* violation is under appeal
C2_Witness ==
    /\ lastError = "Unauthorized"
    /\ paused
    /\ \E id \in DOMAIN violations : violations[id].status = Appealed
    /\ \E sender \in Principals : \A r \in RoleNames : ~hasRole(r, sender)

----------------------------------------------------------------------------
(* C3: no double refund credit *)

\* the step is a resolveAppeal that approves the appeal on violation id, which
\* was paid by payer, and queues its paidAmount for payer
CreditStep(id, payer) ==
    /\ violations[id].status = Appealed
    /\ violations[id].paidAmount > 0
    /\ violations[id].paidBy = payer
    /\ ~Appeal(id).resolved
    /\ appeals'[id].resolved /\ appeals'[id].approved
    /\ violations'[id].status = Refunded
    /\ Get(pendingRefunds', payer, 0) = PendingRefund(payer) + violations[id].paidAmount
    /\ FineRefunded' = FineRefunded (+)
          SetToBag({[violationId |-> id, refundedTo |-> payer,
                     amount |-> violations[id].paidAmount]})

\* C3: the refund queue is credited at most once on behalf of each violation
\* identifier, and every step (other than the revert of a failed transaction)
\* that raises a pending balance is a resolveAppeal approving the appeal on a
\* violation with paidAmount > 0, raising the payer's balance by that paidAmount.
C3_NoDoubleRefundCredit ==
    /\ [](\A e \in DOMAIN FineRefunded : CreditsOf(e.violationId) <= 1)
    /\ [][Rollback \/
          \A a \in Accounts :
             Get(pendingRefunds', a, 0) > PendingRefund(a) =>
                \E id \in DOMAIN violations : CreditStep(id, a)]_vars

\* a paid violation was refunded: its payer was credited its paidAmount, once
C3_Witness ==
    \E id \in DOMAIN violations :
       /\ violations[id].status = Refunded
       /\ violations[id].paidAmount > 0
       /\ CreditsOf(id) = 1
       /\ PendingRefund(violations[id].paidBy) = violations[id].paidAmount

----------------------------------------------------------------------------
(* C4: claimRefund *)

\* C4: a claimRefund by p that passes its checks was called with a balance
\* b > 0 while the system is not paused, sets p's balance to 0 and sends exactly
\* b from the ledger to p; when it completes it sends nothing more and records
\* one claim of b; a claimRefund by p while p's balance is 0 is refused, and a
\* refused call changes nothing.
C4_ClaimRefund ==
    /\ [][Starts("claimRefund") =>
             LET p == frame'.sender
                 b == PendingRefund(p)
             IN /\ b > 0 /\ ~paused
                /\ frame'.recipient = p /\ frame'.amount = b
                /\ Get(pendingRefunds', p, 0) = 0
                /\ wallet' = [wallet EXCEPT ![p] = @ + b]
                /\ balance' = balance - b]_vars
    /\ [][Completes("claimRefund") =>
             /\ UNCHANGED <<pendingRefunds, wallet, balance>>
             /\ RefundClaimed' = RefundClaimed (+)
                   SetToBag({[claimant |-> frame.sender, amount |-> frame.amount]})]_vars
    /\ [](\A p \in Principals :
             PendingRefund(p) = 0 =>
                claimRefundError(p) \in {"Reentrant", "Paused", "InvalidInput"})
    /\ [][lastError' \in {"Reentrant", "Paused", "InvalidInput"} =>
             UNCHANGED <<ledger, frame>>]_vars

\* the driver has claimed the refund of 1000 and holds the initial funds again;
\* the balance is 0 and the next claim is refused
C4_Witness ==
    /\ ~InTransfer /\ ~paused
    /\ BagIn([claimant |-> "drv", amount |-> 1000], RefundClaimed)
    /\ PendingRefund("drv") = 0
    /\ wallet["drv"] = InitialWallet["drv"]
    /\ claimRefundError("drv") = "InvalidInput"
    /\ lastError = "InvalidInput"

----------------------------------------------------------------------------
(* C5: re-entry discipline *)

\* C5: while the transfer of a guarded function is in progress every payFine
\* and every claimRefund is refused as a re-entry, and a refused re-entry
\* changes nothing; when claimRefund hands control to the claimant the
\* claimant's balance is already 0; and at every moment what claimRefund has
\* sent to a claimant plus the claimant's pending balance is what the queue was
\* credited with for that claimant.
C5_ReentryDiscipline ==
    /\ [](InTransfer =>
             /\ reentrancyStatus = ENTERED
             /\ \A sender \in Principals, id \in IdInputs, value \in PaymentInputs :
                   /\ payFineError(id, value) = "Reentrant"
                   /\ claimRefundError(sender) = "Reentrant")
    /\ [][lastError' = "Reentrant" => UNCHANGED <<ledger, frame>>]_vars
    /\ [][Starts("claimRefund") => Get(pendingRefunds', frame'.sender, 0) = 0]_vars
    /\ [](\A p \in Accounts : ClaimedOut(p) + PendingRefund(p) = Credited(p))

\* a call was refused as a re-entry while the payout of a claimRefund is in
\* progress
C5_Witness ==
    /\ frame.op = "claimRefund"
    /\ nested > 0
    /\ lastError = "Reentrant"
    /\ frame.amount > 0
    /\ PendingRefund(frame.sender) = 0

----------------------------------------------------------------------------
(* C6: pending-refund ownership *)

\* C6: in every step other than the revert of a failed transaction, the pending
\* balance of p rises only by a resolveAppeal that approves the appeal on a
\* violation paid by p, and falls only to 0 and only when p's own claimRefund
\* hands out the balance; every other step leaves it as it is.
C6_PendingRefundOwnership ==
    [][Rollback \/
       \A p \in Accounts :
          LET before == PendingRefund(p)
              after == Get(pendingRefunds', p, 0)
          IN /\ after > before =>
                   \E id \in DOMAIN violations :
                      /\ violations[id].paidBy = p
                      /\ violations[id].status = Appealed
                      /\ violations'[id].status = Refunded
                      /\ after = before + violations[id].paidAmount
             /\ after < before =>
                   /\ after = 0
                   /\ Starts("claimRefund")
                   /\ frame'.sender = p
                   /\ frame'.amount = before]_vars

\* the driver's refund is pending while the officer, who paid the other
\* violation, has claimed the refund of it
C6_Witness ==
    /\ PendingRefund("drv") = 1000
    /\ PendingRefund("off") = 0
    /\ BagIn([claimant |-> "off", amount |-> 1000], RefundClaimed)
    /\ ~InTransfer

----------------------------------------------------------------------------
(* C7: a failed transfer is atomic *)

\* C7: the transfer of a guarded function starts with the state before the
\* call on record, the record is kept while the transfer is in progress, and
\* when the transfer fails the whole state is the recorded one again, whatever
\* the recipient did meanwhile: after a failed payFine the violation is Unpaid
\* with paidAmount 0 and no payer, totalFinesPaid and the funds of the ledger
\* and of the payer are those before the call; after a failed claimRefund the
\* claimant's pending balance is the positive balance before the call.
C7_TransferFailureAtomic ==
    /\ [][\A op \in {"payFine", "claimRefund", "withdrawFunds"} :
             Starts(op) => frame'.saved = Snapshot]_vars
    /\ [][InTransfer /\ InTransfer' => frame' = frame]_vars
    /\ [][Rollback =>
             /\ Snapshot' = frame.saved
             /\ ~InTransfer'
             /\ frame.op = "payFine" =>
                   /\ violations'[frame.id].status = Unpaid
                   /\ violations'[frame.id].paidAmount = 0
                   /\ violations'[frame.id].paidBy = ZeroAddress
                   /\ totalFinesPaid' = frame.saved.totalFinesPaid
                   /\ balance' = frame.saved.balance
                   /\ wallet'[frame.sender] = frame.saved.wallet[frame.sender]
             /\ frame.op = "claimRefund" =>
                   /\ Get(pendingRefunds', frame.sender, 0) = frame.amount
                   /\ frame.amount > 0
                   /\ balance' = frame.saved.balance]_vars

\* the payer did not accept the excess of the payment: the payFine has failed,
\* the violation is Unpaid, nothing was paid and everybody holds the initial
\* funds
C7_Witness ==
    /\ lastError = "TransferFailed"
    /\ ~InTransfer
    /\ totalFinesPaid = 0
    /\ balance = 0
    /\ wallet = InitialWallet
    /\ \E id \in DOMAIN violations :
          /\ violations[id].status = Unpaid
          /\ violations[id].fineAmount > 0
          /\ violations[id].paidBy = ZeroAddress

----------------------------------------------------------------------------
(* C8: payFine *)

\* the checks of payFine the statement lists
PayFineConditions(id, value) ==
    /\ ~paused
    /\ violationExists(id)
    /\ Violation(id).status = Unpaid
    /\ value >= Violation(id).fineAmount

\* the step is the bookkeeping of a payFine by payer on violation id
PayStep(id, payer) ==
    LET fine == violations[id].fineAmount IN
    /\ violations' = [violations EXCEPT ![id] = [@ EXCEPT !.status = Paid,
                                                          !.paidAmount = fine,
                                                          !.paidBy = payer]]
    /\ totalFinesPaid' = totalFinesPaid + fine
    /\ balance' = balance + fine
    /\ wallet' = [wallet EXCEPT ![payer] = @ - fine]
    /\ \/ /\ frame' = frame
          /\ lastError' = Ok
       \/ /\ Starts("payFine")
          /\ frame'.sender = payer /\ frame'.recipient = payer /\ frame'.id = id
          /\ frame'.amount \in {value - fine : value \in PaymentInputs}
          /\ frame'.amount > 0

\* the statement as written: payFine succeeds iff the system is not paused,
\* the violation exists, it is Unpaid and the payment covers the fine, so a
\* payFine that has passed these checks never fails
C8_PayFineAsStated ==
    /\ [](\A id \in IdInputs, value \in PaymentInputs :
             payFineError(id, value) = Ok <=> PayFineConditions(id, value))
    /\ [][frame.op = "payFine" /\ ~InTransfer' => lastError' = Ok]_vars

\* C8: payFine(id) with payment v passes its checks iff no guarded call is in
\* progress, the system is not paused, the violation exists, it is Unpaid and
\* v >= fineAmount. A violation goes from Unpaid to Paid only by the bookkeeping
\* of a payFine: paidAmount = fineAmount, payer = caller, totalFinesPaid and the
\* funds of the ledger grow by fineAmount, the caller's funds shrink by
\* fineAmount and the rest of the payment, if any, is sent back to the caller.
\* If the caller accepts it, or nothing is sent back, the payFine succeeds and
\* changes nothing more; if not, the payFine fails and the violation is Unpaid.
\* A payFine on a violation that is not Unpaid is refused, and a refused payFine
\* changes nothing.
C8_PayFine ==
    /\ [](\A id \in IdInputs, value \in PaymentInputs :
             payFineError(id, value) = Ok <=>
                reentrancyStatus = NOT_ENTERED /\ PayFineConditions(id, value))
    /\ [][Rollback \/
          \A id \in DOMAIN violations :
             violations[id].status = Unpaid /\ violations'[id].status = Paid =>
                \E payer \in Principals : PayStep(id, payer)]_vars
    /\ [][Starts("payFine") =>
             violations[frame'.id].status = Unpaid /\ PayStep(frame'.id, frame'.sender)]_vars
    /\ [][Completes("payFine") =>
             UNCHANGED <<violations, totalFinesPaid, balance, wallet>>]_vars
    /\ [][frame.op = "payFine" /\ Rollback =>
             violations'[frame.id].status = Unpaid]_vars
    /\ [](\A id \in DOMAIN violations, value \in PaymentInputs :
             violations[id].status # Unpaid =>
                payFineError(id, value) \in {"Reentrant", "Paused", "InvalidState"})
    /\ [][lastError' \in {"NotFound", "InvalidState"} => UNCHANGED <<ledger, frame>>]_vars

\* a payment of 1001 for a fine of 1000: the violation is Paid by the caller
\* with paidAmount 1000, the ledger holds 1000 more and 1 is on its way back
C8_Witness ==
    /\ frame.op = "payFine"
    /\ frame.amount = 1
    /\ frame.id \in DOMAIN violations
    /\ violations[frame.id].status = Paid
    /\ violations[frame.id].paidAmount = 1000
    /\ violations[frame.id].paidBy = frame.sender
    /\ totalFinesPaid = 1000
    /\ balance = 1000
    /\ wallet[frame.sender] = InitialWallet[frame.sender] - 1000

----------------------------------------------------------------------------
(* C9: resolveAppeal *)

\* a resolveAppeal by a Judge on an Appealed violation with an unresolved
\* appeal passes its checks
ResolveAccepted ==
    \A sender \in Principals, id \in DOMAIN violations :
       /\ hasRole(JUDGE_ROLE, sender)
       /\ ~paused
       /\ violations[id].status = Appealed
       /\ ~Appeal(id).resolved
       => resolveAppealError(sender, id) = Ok

\* the step resolves the appeal on violation id by the table of the statement
ResolveStep(id) ==
    LET violation == violations[id]
        approve == appeals'[id].approved
        paid == violation.paidAmount
        payer == violation.paidBy
    IN
    /\ violation.status = Appealed
    /\ hasRole(JUDGE_ROLE, appeals'[id].resolvedBy)
    /\ appeals'[id].resolution \in ResolutionInputs
    /\ appeals' = [appeals EXCEPT ![id] = [@ EXCEPT !.resolved = TRUE,
                                                    !.approved = approve,
                                                    !.resolution = appeals'[id].resolution,
                                                    !.resolvedBy = appeals'[id].resolvedBy]]
    /\ violations' = [violations EXCEPT ![id].status =
          CASE approve /\ paid > 0 -> Refunded
            [] approve /\ paid = 0 -> Waived
            [] ~approve /\ paid > 0 -> Paid
            [] ~approve /\ paid = 0 -> Rejected]
    /\ UNCHANGED <<totalFinesPaid, totalViolations, balance, wallet, RefundClaimed>>
    /\ IF approve /\ paid > 0
       THEN /\ Get(pendingRefunds', payer, 0) = PendingRefund(payer) + paid
            /\ \A a \in Accounts \ {payer} : Get(pendingRefunds', a, 0) = PendingRefund(a)
            /\ totalFinesRefunded' = totalFinesRefunded + paid
       ELSE UNCHANGED <<pendingRefunds, totalFinesRefunded, FineRefunded>>

\* C9: a resolveAppeal by a Judge on a violation that is Appealed with an
\* unresolved appeal passes its checks (while the system is not paused), and
\* every step that resolves an appeal records the decision and its text, a
\* Judge as the resolver, and sets the status by the table: approved and paid ->
\* Refunded with the payer's pending refund and totalFinesRefunded raised by
\* paidAmount; approved and not paid -> Waived; rejected and paid -> Paid;
\* rejected and not paid -> Rejected, without any change of a pending refund or
\* a statistic in the last three cases.
C9_ResolveAppeal ==
    /\ []ResolveAccepted
    /\ [][Rollback \/
          \A id \in DOMAIN appeals :
             ~appeals[id].resolved /\ appeals'[id].resolved => ResolveStep(id)]_vars

\* one appeal was approved on a paid violation, which is Refunded with the
\* refund pending for the payer; the other was rejected on a violation that was
\* never paid, which is Rejected
C9_Witness ==
    \E a, b \in DOMAIN violations :
       /\ violations[a].status = Refunded
       /\ Appeal(a).resolved /\ Appeal(a).approved
       /\ Appeal(a).resolvedBy = Admin
       /\ PendingRefund(violations[a].paidBy) = violations[a].paidAmount
       /\ totalFinesRefunded = violations[a].paidAmount
       /\ violations[b].status = Rejected
       /\ Appeal(b).resolved /\ ~Appeal(b).approved
       /\ violations[b].paidAmount = 0

----------------------------------------------------------------------------
(* C10: statistics consistency (paid) *)

\* C10: totalFinesPaid is the sum of paidAmount over the violations that are
\* Paid, Appealed or Refunded.
C10_TotalFinesPaid ==
    totalFinesPaid = PaidAmountIn({Paid, Appealed, Refunded})

----------------------------------------------------------------------------
(* C11: invariant I4, paid half *)

\* no identifier was logged twice: every index entry is of a violation of its own
EachIdLoggedOnce ==
    \A vehicleId \in DOMAIN vehicleViolations :
       \A i, j \in 1..Len(vehicleViolations[vehicleId]) :
          vehicleViolations[vehicleId][i] = vehicleViolations[vehicleId][j] => i = j

----------------------------------------------------------------------------
(* C12: statistics consistency (refunded) *)

RECURSIVE SumPending(_, _)
SumPending(refunds, accounts) ==
    IF accounts = {} THEN 0
    ELSE LET a == CHOOSE x \in accounts : TRUE
         IN refunds[a] + SumPending(refunds, accounts \ {a})

\* the sum of all amounts ever credited to the refund queue
CreditedTotal == SumAmount(FineRefunded, DOMAIN FineRefunded)

\* the sum of all current pending balances
PendingTotal == SumPending(pendingRefunds, DOMAIN pendingRefunds)

\* the sum of all amounts claimRefund has paid out, the payout in progress
\* included
ClaimedTotal ==
    SumAmount(RefundClaimed, DOMAIN RefundClaimed)
    + (IF frame.op = "claimRefund" THEN frame.amount ELSE 0)

\* C12: totalFinesRefunded is the sum of the amounts ever credited to the
\* refund queue, which is the sum of paidAmount over the Refunded violations
\* and is the sum of the pending balances plus the sum of the amounts paid out
\* by claimRefund.
C12_TotalFinesRefunded ==
    /\ totalFinesRefunded = CreditedTotal
    /\ totalFinesRefunded = PaidAmountIn({Refunded})
    /\ totalFinesRefunded = PendingTotal + ClaimedTotal

----------------------------------------------------------------------------
(* C13: invariant I2 *)

\* C13: every violation with paidAmount > 0 is Paid, Appealed or Refunded.
C13_PaidAmountStatus ==
    \A id \in DOMAIN violations :
       violations[id].paidAmount > 0 =>
          violations[id].status \in {Paid, Appealed, Refunded}

\* a paid violation was refunded and keeps its paidAmount, while the violation
\* that was waived was never paid
C13_Witness ==
    \E a, b \in DOMAIN violations :
       /\ violations[a].status = Refunded /\ violations[a].paidAmount > 0
       /\ violations[b].status = Waived /\ violations[b].paidAmount = 0

----------------------------------------------------------------------------
(* C14: the global switch *)

\* everything but the pause flag, the guard and the records of the calls
ledgerButPaused ==
    <<roles, officers, offenses, violations, vehicleViolations, appeals,
      totalViolations, totalFinesPaid, totalFinesRefunded, officerDailyViolations,
      pendingRefunds, balance, wallet, FineRefunded, RefundClaimed>>

\* every call of a mutating entry point other than unpause is refused
AllRefused ==
    \A sender \in Principals :
       /\ \A r \in RegisterInputs \cup ReregisterInputs :
             registerOfficerError(sender, r.officerId, r.name, r.badgeNumber) # Ok
       /\ \A officerId \in OfficerInputs : deactivateOfficerError(sender, officerId) # Ok
       /\ \A v \in LogInputs :
             logViolationError(sender, v.vehicleId, v.offenseCode, v.evidenceHash,
                               v.driverId) # Ok
       /\ \A id \in IdInputs, value \in PaymentInputs : payFineError(id, value) # Ok
       /\ \A id \in IdInputs, appealReason \in ReasonInputs :
             submitAppealError(sender, id, appealReason) # Ok
       /\ \A id \in IdInputs : resolveAppealError(sender, id) # Ok
       /\ claimRefundError(sender) # Ok
       /\ updateOffenseError(sender) # Ok
       /\ \A recipient \in RecipientInputs, amount \in WithdrawInputs :
             withdrawFundsError(sender, recipient, amount) # Ok
       /\ \A g \in RoleInputs :
             grantRoleError(sender, g.role) # Ok /\ revokeRoleError(sender, g.role) # Ok

\* C14: while the system is paused every mutating entry point other than
\* unpause is refused, and nothing but the pause flag changes.
C14_PausedRejectsAll ==
    /\ [](paused => AllRefused)
    /\ [][paused /\ ~InTransfer => UNCHANGED ledgerButPaused]_vars

----------------------------------------------------------------------------
(* C15: pause and unpause *)

\* C15: a pause call while the system is paused fails and changes nothing, and
\* a pause or an unpause that succeeds changes the pause flag and nothing else,
\* so that pause followed directly by unpause gives back the state it started
\* from.
C15_IdempotentPause ==
    /\ [](paused => \A sender \in Principals : pauseError(sender) # Ok)
    /\ [](paused => \E sender \in Principals : pauseError(sender) = "Paused")
    /\ [][paused /\ lastError' = "Paused" /\ now' = now =>
             UNCHANGED <<ledger, frame>>]_vars
    /\ [][Rollback \/ (paused' # paused =>
                          /\ lastError' = Ok
                          /\ UNCHANGED <<ledgerButPaused, reentrancyStatus, now,
                                         frame>>)]_vars

\* a call was refused for the pause flag in a state with a fine paid
C15_Witness == paused /\ lastError = "Paused" /\ totalFinesPaid > 0

----------------------------------------------------------------------------
(* C16: the rate ceiling *)

\* C16: an officer who has logged MAX_VIOLATIONS_PER_DAY violations on a day is
\* refused with RateLimited for the rest of that day, so that no officer's
\* count of the day exceeds MAX_VIOLATIONS_PER_DAY.
C16_RateCeiling ==
    \A officerId \in DOMAIN officers :
       /\ officers[officerId].dailyViolationCount <= MAX_VIOLATIONS_PER_DAY
       /\ (/\ officers[officerId].lastViolationDate = now \div DAY
           /\ officers[officerId].dailyViolationCount >= MAX_VIOLATIONS_PER_DAY)
          => \A v \in RateInputs :
                logViolationError(officerId, v.vehicleId, v.offenseCode,
                                  v.evidenceHash, v.driverId) = "RateLimited"

----------------------------------------------------------------------------
(* C17: the dual bookkeeping of officers *)

\* C17 (I5): for every principal the Officer record's active flag is true if
\* and only if the principal holds the Officer role.
C17_ActiveIffRole ==
    \A p \in Principals \cup DOMAIN officers :
       Officer(p).isActive <=> hasRole(OFFICER_ROLE, p)

----------------------------------------------------------------------------
(* C18: identifier collision *)

\* C18: a logViolation whose identifier is that of an existing violation is
\* refused, and a logViolation that succeeds leaves every existing violation
\* record as it was.
C18_CollisionRejected ==
    /\ [](\A sender \in Principals, v \in LogInputs :
            ViolationId(v.vehicleId, sender, now, v.offenseCode) \in DOMAIN violations
               => logViolationError(sender, v.vehicleId, v.offenseCode,
                                    v.evidenceHash, v.driverId) # Ok)
    /\ [][totalViolations' = totalViolations + 1 =>
             \A id \in DOMAIN violations : violations'[id] = violations[id]]_vars

----------------------------------------------------------------------------
(* C19: offense codes at issuance *)

\* C19 (I6): logViolation with a code that is unknown or inactive in the
\* catalog is refused; the record a logViolation stores has a code that is
\* active in the catalog at that moment, and the fine of that moment; and a
\* step that changes the catalog leaves every violation as it was.
C19_ActiveAtIssuance ==
    /\ [](\A sender \in Principals, v \in LogInputs :
            ~Offense(v.offenseCode).isActive
               => logViolationError(sender, v.vehicleId, v.offenseCode,
                                    v.evidenceHash, v.driverId) # Ok)
    /\ [][totalViolations' = totalViolations + 1 =>
             \A id \in DOMAIN violations' :
                (id \notin DOMAIN violations \/ violations'[id] # violations[id]) =>
                   /\ Offense(violations'[id].offenseCode).isActive
                   /\ violations'[id].fineAmount =
                         Offense(violations'[id].offenseCode).fineAmountKES
                            * KES_TO_WEI_RATE]_vars
    /\ [][Rollback \/ (offenses' # offenses =>
                          UNCHANGED <<violations, vehicleViolations,
                                      totalViolations>>)]_vars

\* a violation under code 2 exists, code 2 has since been deactivated, and a
\* violation exists under code 16, which the catalog did not have at first
C19_Witness ==
    /\ ~Offense(2).isActive
    /\ \E a, b \in DOMAIN violations :
          violations[a].offenseCode = 2 /\ violations[b].offenseCode = 16

----------------------------------------------------------------------------
(* C20: registerOfficer *)

\* C20: registerOfficer of a principal who is active is refused and a refused
\* call changes nothing; a step that reactivates a record changes nothing of
\* the record but the active flag and grants the Officer role; a step that
\* creates a record sets active, registration time = now and count 0 and grants
\* the Officer role; a record is stored under its principal and no record is
\* ever removed.
C20_RegisterOfficer ==
    /\ [](\A sender \in Principals, r \in RegisterInputs \cup ReregisterInputs :
            Officer(r.officerId).isActive =>
               /\ registerOfficerError(sender, r.officerId, r.name, r.badgeNumber) # Ok
               /\ (/\ hasRole(OFFICER_MANAGER_ROLE, sender)
                   /\ validString(r.name, MAX_STRING_LENGTH)
                   /\ validString(r.badgeNumber, MAX_BADGE_LENGTH)
                   /\ ~paused)
                  => registerOfficerError(sender, r.officerId, r.name,
                                          r.badgeNumber) = "InvalidState")
    /\ [](\A p \in DOMAIN officers : officers[p].officerId = p)
    /\ [][lastError' = "InvalidState" /\ now' = now => UNCHANGED <<ledger, frame>>]_vars
    /\ [][Rollback \/
             /\ DOMAIN officers \subseteq DOMAIN officers'
             /\ \A p \in DOMAIN officers :
                   ~officers[p].isActive /\ officers'[p].isActive =>
                      /\ officers'[p] = [officers[p] EXCEPT !.isActive = TRUE]
                      /\ p \in roles'[OFFICER_ROLE]
             /\ \A p \in DOMAIN officers' \ DOMAIN officers :
                   /\ officers'[p].isActive
                   /\ officers'[p].registrationTime = now
                   /\ officers'[p].dailyViolationCount = 0
                   /\ p \in roles'[OFFICER_ROLE]]_vars

\* a record registered on an earlier day, with a ticket issued and since
\* deactivated, whose registration under another name is accepted
C20_Witness ==
    \E r \in ReregisterInputs :
       /\ r.officerId \in DOMAIN officers
       /\ ~officers[r.officerId].isActive
       /\ officers[r.officerId].registrationTime < now
       /\ officers[r.officerId].dailyViolationCount > 0
       /\ officers[r.officerId].name # r.name
       /\ \E sender \in Principals :
             registerOfficerError(sender, r.officerId, r.name, r.badgeNumber) = Ok

----------------------------------------------------------------------------
(* C21: the roles after initialization *)

\* the state is the one initialize left, but for calls that touch no role
RolesAsInitialized == officers = <<>>

\* C21 as stated: after initialization the bootstrap principal holds every
\* role, the Officer role included, and nobody else holds a role.
C21_AllRolesAsStated ==
    RolesAsInitialized => \A r \in RoleNames : roles[r] = {Admin}

\* C21: after initialization the bootstrap principal holds the
\* super-administrative role, Admin, OfficerManager, Judge, Treasury and
\* Upgrader, the Officer role has no holder, and nobody else holds a role.
C21_InitialRoles ==
    RolesAsInitialized =>
       /\ roles[DEFAULT_ADMIN_ROLE] = {Admin}
       /\ roles[ADMIN_ROLE] = {Admin}
       /\ roles[OFFICER_MANAGER_ROLE] = {Admin}
       /\ roles[JUDGE_ROLE] = {Admin}
       /\ roles[TREASURY_ROLE] = {Admin}
       /\ roles[UPGRADER_ROLE] = {Admin}
       /\ roles[OFFICER_ROLE] = {}
       /\ DOMAIN roles = RoleNames

\* nothing has been called yet and a logViolation by the bootstrap principal
\* would be refused for the missing Officer role
C21_Witness ==
    /\ RolesAsInitialized
    /\ violations = <<>> /\ ~paused /\ now = 1 /\ balance = 0
    /\ offenses = InitialOffenses
    /\ \A v \in LogInputs :
          logViolationError(Admin, v.vehicleId, v.offenseCode, v.evidenceHash,
                            v.driverId) = "Unauthorized"

----------------------------------------------------------------------------
(* C22: who may grant and revoke *)

----------------------------------------------------------------------------
(* C23: paying after a rejected appeal *)

\* C23: a violation that was never paid and whose appeal was rejected can
\* still be paid: while the system is not paused and no call is in progress,
\* payFine with a payment of at least the fine is accepted.
C23_RejectedThenPay ==
    \A id \in DOMAIN violations :
       (/\ violations[id].status = Rejected
        /\ violations[id].paidAmount = 0
        /\ ~paused /\ ~InTransfer)
       => \A value \in PaymentInputs :
             value >= violations[id].fineAmount => payFineError(id, value) = Ok

----------------------------------------------------------------------------
(* C24: appeals after a resolution *)

\* the checks of submitAppeal that come before the limit and the cooldown
\* all pass
AppealAdmissible(sender, id, appealReason) ==
    /\ violationExists(id)
    /\ ~paused
    /\ Violation(id).status \in {Unpaid, Paid}
    /\ sender = Violation(id).driverId
    /\ Len(appealReason) > 0
    /\ ~Appeal(id).resolved

\* C24: once an appeal on a violation has been resolved every later
\* submitAppeal on it is refused and the resolved flag stays; no violation has
\* more than one submission; and neither the limit of appeals nor the cooldown
\* ever refuses a call that passes the other checks.
C24_OneAppeal ==
    /\ [](\A id \in DOMAIN appeals :
            appeals[id].resolved =>
               \A sender \in Principals, appealReason \in ReasonInputs :
                  submitAppealError(sender, id, appealReason) # Ok)
    /\ [](\A id \in DOMAIN appeals : appeals[id].appealCount <= 1)
    /\ [](\A sender \in Principals, id \in DOMAIN violations,
             appealReason \in ReasonInputs :
               AppealAdmissible(sender, id, appealReason)
                  => submitAppealError(sender, id, appealReason) = Ok)
    /\ [][Rollback \/ \A id \in DOMAIN appeals :
                         appeals[id].resolved => appeals'[id].resolved]_vars

----------------------------------------------------------------------------
(* C25: submitAppeal *)

Refusals == {"NotFound", "Paused", "InvalidState", "Unauthorized", "InvalidInput",
             "Reentrant", "RateLimited"}

\* C25: submitAppeal is accepted only if the violation exists, is Unpaid or
\* Paid, the caller is its responsible party, the reason is not empty and the
\* appeal is not resolved; the step that makes a violation Appealed changes
\* nothing of it but the status and leaves an appeal record with the
\* responsible party as appellant, a reason that is not empty, the time of the
\* step, resolved and approved false and one submission more; and a call that
\* is refused changes nothing.
C25_SubmitAppeal ==
    /\ [](\A sender \in Principals, id \in IdInputs, appealReason \in ReasonInputs :
            submitAppealError(sender, id, appealReason) = Ok =>
               /\ id \in DOMAIN violations
               /\ violations[id].status \in {Unpaid, Paid}
               /\ sender = violations[id].driverId
               /\ appealReason # ""
               /\ ~Appeal(id).resolved)
    /\ [][Rollback \/ \A id \in DOMAIN violations :
             violations[id].status # Appealed /\ violations'[id].status = Appealed =>
                /\ violations'[id] = [violations[id] EXCEPT !.status = Appealed]
                /\ id \in DOMAIN appeals'
                /\ appeals'[id].violationId = id
                /\ appeals'[id].appellant = violations[id].driverId
                /\ appeals'[id].appealReason \in ReasonInputs \ {""}
                /\ appeals'[id].appealTime = now
                /\ ~appeals'[id].resolved /\ ~appeals'[id].approved
                /\ appeals'[id].appealCount = Appeal(id).appealCount + 1
                /\ lastError' = Ok]_vars
    /\ [][lastError' \in Refusals /\ now' = now => UNCHANGED <<ledger, frame>>]_vars

\* a violation paid by somebody else than its responsible party is under
\* appeal by the responsible party
C25_Witness ==
    \E id \in DOMAIN violations :
       /\ violations[id].status = Appealed
       /\ violations[id].paidBy \notin {ZeroAddress, violations[id].driverId}
       /\ id \in DOMAIN appeals
       /\ appeals[id].appellant = violations[id].driverId
       /\ appeals[id].appealCount = 1 /\ ~appeals[id].resolved

----------------------------------------------------------------------------
(* C26: reading a vehicle's index by pages *)

Min(a, b) == IF a < b THEN a ELSE b

\* the entries at positions offset .. min(offset + limit, n) - 1, counted from 0
Window(index, offset, limit) ==
    IF offset >= Len(index) THEN <<>>
    ELSE SubSeq(index, offset + 1, Min(offset + limit, Len(index)))

\* C26: getVehicleViolations never fails, changes nothing, and returns the
\* empty sequence for an offset beyond the index and otherwise the entries
\* offset .. min(offset + limit, n) - 1 in the order of insertion.
C26_Pagination ==
    /\ [](\A q \in PageInputs :
            getVehicleViolationsError(q.vehicleId, q.offset, q.limit) = Ok)
    /\ [](\A q \in PageInputs :
            getVehicleViolationsError(q.vehicleId, q.offset, q.limit) = Ok =>
            getVehicleViolations(q.vehicleId, q.offset, q.limit)
               = Window(Get(vehicleViolations, q.vehicleId, <<>>), q.offset, q.limit))
    /\ [][lastError' = "Panic" /\ now' = now => UNCHANGED <<ledger, frame>>]_vars

----------------------------------------------------------------------------
(* C27: the audit log *)

\* what the contract stores, the event log apart
stored ==
    <<roles, paused, officers, offenses, violations, vehicleViolations, appeals,
      totalViolations, totalFinesPaid, totalFinesRefunded, officerDailyViolations,
      pendingRefunds, balance>>

\* the log after the step is the log before it with entries added at the end
Appended(n) ==
    /\ Len(audit'.log) >= Len(audit.log) + n
    /\ SubSeq(audit'.log, 1, Len(audit.log)) = audit.log

\* C27: a call that succeeds and changes what the contract stores appends at
\* least one entry to the event log, at once or, if it makes a transfer, when
\* the transfer has returned; a call that is refused appends nothing; a failed
\* transfer leaves the log as it was before the transaction; and no step
\* changes, reorders or removes an entry that is in the log.
C27_AuditLog ==
    /\ [][~Rollback /\ frame' = frame /\ stored' # stored => Appended(1)]_vars
    /\ [][Starts("payFine") \/ Starts("claimRefund") \/ Starts("withdrawFunds")
             => audit' = audit]_vars
    /\ [][Completes("payFine") \/ Completes("claimRefund")
             \/ Completes("withdrawFunds") => Appended(1)]_vars
    /\ [][lastError' \in Refusals => audit' = audit /\ stored' = stored]_vars
    /\ [][Rollback => audit' = frame.saved.audit]_vars
    /\ [][Rollback \/ Appended(0)]_vars

\* the log of a fine that was logged, paid, appealed, refunded and claimed
C27_Witness ==
    audit.log = <<"OfficerRegistered", "ViolationLogged", "FinePaid",
                  "AppealSubmitted", "FineRefunded", "AppealResolved",
                  "RefundClaimed">>

----------------------------------------------------------------------------
(* C28: the daily count *)

\* the successful logViolation calls of an officer on a day: each one has put
\* an identifier with the officer and the time into a vehicle's index
LogsOn(index, officerId, day) ==
    Cardinality({p \in UNION {{<<v, i>> : i \in 1..Len(index[v])} : v \in DOMAIN index} :
                    /\ index[p[1]][p[2]][2] = officerId
                    /\ index[p[1]][p[2]][3] \div DAY = day})

\* C28: a successful logViolation sets the officer's date of the last issuance
\* to the current day and leaves the count equal to the number of the
\* officer's successful logViolation calls of that day, which is 1 when the
\* stored date was another day; no other call changes the count or the date of
\* a registered officer, deactivation and registration again included.
C28_DailyCount ==
    /\ [][totalViolations' = totalViolations + 1 =>
             \E o \in DOMAIN officers' :
                /\ LogsOn(vehicleViolations', o, now \div DAY)
                      = LogsOn(vehicleViolations, o, now \div DAY) + 1
                /\ officers'[o].lastViolationDate = now \div DAY
                /\ officers'[o].dailyViolationCount
                      = LogsOn(vehicleViolations', o, now \div DAY)
                /\ Officer(o).lastViolationDate # now \div DAY
                      => officers'[o].dailyViolationCount = 1]_vars
    /\ [][totalViolations' = totalViolations =>
             \A o \in DOMAIN officers :
                officers[o].registrationTime > 0 =>
                /\ officers'[o].dailyViolationCount = officers[o].dailyViolationCount
                /\ officers'[o].lastViolationDate = officers[o].lastViolationDate]_vars

----------------------------------------------------------------------------
(* C29: the counter read by the rate-limit guard *)

----------------------------------------------------------------------------
(* C30: the indexes of the violations *)

\* the number of places of a vehicle's index that hold an identifier
Occurrences(index, v, id) ==
    Cardinality({i \in 1..Len(index[v]) : index[v][i] = id})

\* one identifier was added at the end of one vehicle's index
AddsOneEntry ==
    \E v \in DOMAIN vehicleViolations' :
       /\ Len(vehicleViolations'[v]) = Len(Get(vehicleViolations, v, <<>>)) + 1
       /\ SubSeq(vehicleViolations'[v], 1, Len(vehicleViolations'[v]) - 1)
             = Get(vehicleViolations, v, <<>>)
       /\ \A w \in DOMAIN vehicleViolations' \ {v} :
             w \in DOMAIN vehicleViolations /\ vehicleViolations'[w] = vehicleViolations[w]

\* C30: totalViolations is the number of violation records; every violation
\* identifier occurs exactly once in the index of its own vehicle and in no
\* other index; every identifier in an index names an existing violation of
\* that vehicle; a step changes totalViolations or an index only as a successful
\* logViolation, which adds one to totalViolations and one entry to one index.
C30_IndexConsistency ==
    /\ [](totalViolations = Cardinality(DOMAIN violations))
    /\ [](\A id \in DOMAIN violations, v \in DOMAIN vehicleViolations :
            Occurrences(vehicleViolations, v, id)
               = IF v = violations[id].vehicleId THEN 1 ELSE 0)
    /\ [](\A id \in DOMAIN violations :
            violations[id].vehicleId \in DOMAIN vehicleViolations)
    /\ [](\A v \in DOMAIN vehicleViolations :
            \A i \in 1..Len(vehicleViolations[v]) :
               /\ vehicleViolations[v][i] \in DOMAIN violations
               /\ violations[vehicleViolations[v][i]].vehicleId = v)
    /\ [][Rollback
             \/ (/\ totalViolations' = totalViolations
                 /\ vehicleViolations' = vehicleViolations)
             \/ (/\ totalViolations' = totalViolations + 1
                 /\ AddsOneEntry
                 /\ lastError' = Ok)]_vars

----------------------------------------------------------------------------
(* C31: the fine amount of a violation *)

\* C31: a new violation's fine amount is the catalog amount of its offense
\* code at the moment of logging times KES_TO_WEI_RATE; no step changes the
\* fine amount of an existing violation; and a payFine that succeeds records
\* that amount as paid.
C31_FineFixedAtIssuance ==
    /\ [][\A id \in (DOMAIN violations') \ (DOMAIN violations) :
             violations'[id].fineAmount
                = Offense(violations'[id].offenseCode).fineAmountKES * KES_TO_WEI_RATE]_vars
    /\ [][Rollback
             \/ \A id \in DOMAIN violations :
                   violations'[id].fineAmount = violations[id].fineAmount]_vars
    /\ [][Rollback
             \/ \A id \in DOMAIN violations :
                   (violations[id].status = Unpaid /\ violations'[id].status = Paid)
                      => /\ violations'[id].paidAmount = violations[id].fineAmount
                         /\ totalFinesPaid' = totalFinesPaid + violations[id].fineAmount]_vars

----------------------------------------------------------------------------
(* C32: refund solvency *)

\* C32: the funds held by the ledger are at least the sum of the pending
\* refund balances, and the payout of a positive pending balance does not fail
\* for lack of funds.
C32_RefundSolvency ==
    /\ balance >= PendingTotal
    /\ \A sender \in Principals :
          PendingRefund(sender) > 0 => PendingRefund(sender) <= balance

----------------------------------------------------------------------------
(* C33: the status Appealed and the appeal record *)

\* C33: a violation is Appealed if and only if its appeal record has a
\* submission and is not resolved; a resolved appeal record goes with a status
\* among Waived, Refunded, Rejected and Paid; and resolveAppeal's check of the
\* resolved flag refuses no call that has passed the check of the status.
C33_AppealedIffOpen ==
    \A id \in DOMAIN violations :
       /\ violations[id].status = Appealed
             <=> (Appeal(id).appealCount >= 1 /\ ~Appeal(id).resolved)
       /\ Appeal(id).resolved
             => violations[id].status \in {Waived, Refunded, Rejected, Paid}
       /\ \A sender \in Principals :
             (/\ hasRole(JUDGE_ROLE, sender)
              /\ ~paused
              /\ violations[id].status = Appealed)
                => resolveAppealError(sender, id) = Ok

----------------------------------------------------------------------------
(* C34: the issuer of a violation *)

\* C34: logViolation is refused for a caller whose Officer record is not
\* active, so from deactivateOfficer(p) to the next registerOfficer(p) that
\* succeeds p logs nothing; and the caller of a logViolation that succeeds is
\* an active officer at that moment.
C34_IssuedByActiveOfficer ==
    /\ [](\A sender \in Principals, v \in LogInputs :
            ~Officer(sender).isActive
               => logViolationError(sender, v.vehicleId, v.offenseCode,
                                    v.evidenceHash, v.driverId) # Ok)
    /\ [][totalViolations' = totalViolations + 1 =>
             \E v \in DOMAIN vehicleViolations' :
                /\ vehicleViolations'[v] # Get(vehicleViolations, v, <<>>)
                /\ isOfficerActive(
                      violations'[vehicleViolations'[v][Len(vehicleViolations'[v])]].officerId)]_vars

----------------------------------------------------------------------------
(* C35: a violation that was paid is not waived or rejected *)

\* C35: a violation whose payer is set is never Waived or Rejected, and the
\* step that resolves its appeal makes it Refunded or Paid.
C35_PaidNotWaived ==
    /\ [](\A id \in DOMAIN violations :
            (~InTransfer /\ violations[id].paidBy # ZeroAddress)
               => violations[id].status \notin {Waived, Rejected})
    /\ [][Rollback
             \/ \A id \in DOMAIN violations :
                   (/\ violations[id].paidBy # ZeroAddress
                    /\ ~Appeal(id).resolved
                    /\ id \in DOMAIN appeals' /\ appeals'[id].resolved)
                      => violations'[id].status \in {Refunded, Paid}]_vars

----------------------------------------------------------------------------
(* C36: payFine and the calls made while the excess is returned *)

\* C36: when a payFine whose excess was returned completes, the violation it
\* paid is Paid and its payer is the caller.
C36_PaidOnCompletion ==
    [][Completes("payFine") =>
          /\ frame.id \in DOMAIN violations'
          /\ violations'[frame.id].status = Paid
          /\ violations'[frame.id].paidBy = frame.sender]_vars

====
